---- MODULE Spec2Model ----
(***************************************************************************)
(* Model of src/tree.h: template<typename T, unsigned int B = 2> class Set *)
(* -- a B-tree with all elements in the leaves, cached subtree maxima,     *)
(* parent pointers and a cached leftmost-leaf pointer.                     *)
(*                                                                         *)
(* The heap is a sequence of Node objects, a pointer is an index into it    *)
(* (NULL = nullptr), and operator new reuses the lowest free slot or adds   *)
(* one.  A `const T*` (Node::mx) is the  *)
(* id of the leaf that owns the pointed-to T, so a pointer into a deleted  *)
(* leaf is visible as a pointer to a node that is no longer allocated.     *)
(* Every public method is one action; its loops are recursive operators    *)
(* over a "machine" record m = [heap, head, sz, begin_iter, trace, ub].    *)
(* m.trace lists the code paths and rebalancing steps the call went        *)
(* through ("first", "dup", "new", "absent", "erased", "wrap", "split",    *)
(* "borrowL", "borrowR", "fuseL", "fuseR", "collapse"); m.ub is set when   *)
(* the call reads through a null or dangling pointer or past the end of a  *)
(* child list, after which nothing about the program is known.             *)
(* m.iters and m.events are a record of the current insert or erase call:  *)
(* one entry per iteration of split's or merge's loop with the heap before *)
(* and after it, and the child-list edits and recalc calls in program      *)
(* order.  m.cut is set when a loop is stopped after MaxIter iterations; a *)
(* call that was cut never returns.                                        *)
(***************************************************************************)
EXTENDS Integers, Sequences, FiniteSets, TLC

\* ---------------------------------------------------------------- bounds
MaxVal == 9          \* elements of the single-Set specification are 1..MaxVal
CopyMaxVal == 4      \* elements of the two-Set (copy) specification
MaxB == 3            \* the instantiations Set<T, 1> .. Set<T, MaxB>
MaxIter == 5         \* iterations of one split or merge loop that are followed

\* ------------------------------------------------------ program constants
DefaultB == 2        \* template parameter B
NULL == 0            \* nullptr

SetIds == {1, 2}     \* the Set objects of the model
Values == 1..MaxVal
CopyValues == 1..CopyMaxVal

VARIABLES
    B,           \* the template argument B of the instantiation
    heap,        \* sequence of Node: the objects at addresses 1..Len(heap)
    head,        \* SetIds -> root node id (NULL: the Set is not constructed)
    sz,          \* SetIds -> element count
    begin_iter,  \* SetIds -> cached leftmost leaf
    abs,         \* SetIds -> the abstract set driven by the same calls
    trace,       \* rebalancing steps performed by the last public call
    ub           \* TRUE once a call has executed undefined behaviour

vars == <<B, heap, head, sz, begin_iter, abs, trace, ub>>

\* ------------------------------------------------------------- struct Node
\* A slot of the arena that holds no object.
FreeNode == [alloc |-> FALSE, parent |-> NULL, children |-> <<>>, data |-> NULL, mx |-> NULL]

\* Node(): parent(nullptr), data(nullptr), mx(nullptr)
NewNode == [alloc |-> TRUE, parent |-> NULL, children |-> <<>>, data |-> NULL, mx |-> NULL]

\* Node(T elem, Node* par): a leaf at address self; mx = data.get()
NewLeaf(self, elem, par) ==
    [alloc |-> TRUE, parent |-> par, children |-> <<>>, data |-> elem, mx |-> self]

\* operator new: the lowest free address, or a new one past the end
Alloc(h) ==
    LET free == {n \in DOMAIN h : ~h[n].alloc}
    IN IF free = {} THEN Len(h) + 1 ELSE CHOOSE n \in free : \A k \in free : n <= k

\* the heap with node nd constructed at address n, which Alloc returned
Store(h, n, nd) == IF n \in DOMAIN h THEN [h EXCEPT ![n] = nd] ELSE Append(h, nd)

\* ----------------------------------------------------------------- helpers
Range(s) == {s[i] : i \in 1..Len(s)}
Min(S) == CHOOSE x \in S : \A y \in S : x <= y
Max(S) == CHOOSE x \in S : \A y \in S : y <= x
IndexOf(s, x) == IF x \in Range(s) THEN Min({i \in 1..Len(s) : s[i] = x}) ELSE 0
InsertAt(s, i, x) == SubSeq(s, 1, i - 1) \o <<x>> \o SubSeq(s, i, Len(s))
RemoveAt(s, i) == SubSeq(s, 1, i - 1) \o SubSeq(s, i + 1, Len(s))
Back(s) == s[Len(s)]

\* a pointer that may be followed: non-null and to a live object
Live(h, p) == p \in DOMAIN h /\ h[p].alloc
\* *p for a const T* p (Node::mx): the element it points at
DerefOK(h, p) == Live(h, p) /\ h[p].data # NULL
Deref(h, p) == IF DerefOK(h, p) THEN h[p].data ELSE 0

\* ----------------------------------------------------------------- recalc
\* faulty variant of recalc: the maximum is refreshed, the children's parent
\* pointers are not
recalc_mx_only(h, p) ==
    IF h[p].children = <<>> THEN h
    ELSE [h EXCEPT ![p].mx = h[Back(h[p].children)].mx]

\* void recalc(Node* p)
recalc(h, p) ==
    IF h[p].children = <<>> THEN h
    ELSE LET cs == h[p].children
             h1 == [h EXCEPT ![p].mx = h[Back(cs)].mx]
         IN [n \in DOMAIN h |-> IF n \in Range(cs) THEN [h1[n] EXCEPT !.parent = p] ELSE h1[n]]

\* faulty variant of recalc_up: only the edited node is refreshed, not its ancestors
recalc_up_once(h, pos) == IF pos = NULL THEN h ELSE recalc(h, pos)

\* the loops `while (pos != nullptr) { recalc(pos); pos = pos->parent; }`
RECURSIVE recalc_up(_, _)
recalc_up(h, pos) ==
    IF pos = NULL THEN h
    ELSE LET h1 == recalc(h, pos) IN recalc_up(h1, h1[pos].parent)

\* faulty variant of leftmost: one step down instead of the loop
leftmost_one_step(h, cur) ==
    IF h[cur].children = <<>> THEN cur ELSE h[cur].children[1]

\* void recalc_iter(): the leaf reached from cur by first children
RECURSIVE leftmost(_, _)
leftmost(h, cur) ==
    IF h[cur].children = <<>> THEN cur ELSE leftmost(h, h[cur].children[1])

recalc_iter(m) == [m EXCEPT !.begin_iter = leftmost(m.heap, m.head)]

\* ~Node(): deleting a node deletes the children it still owns
RECURSIVE destroy(_, _)
destroy(h, n) ==
    LET cs == h[n].children
        RECURSIVE each(_, _)
        each(g, i) == IF i > Len(cs) THEN g ELSE each(destroy(g, cs[i]), i + 1)
    IN [each(h, 1) EXCEPT ![n] = FreeNode]

\* ------------------------------------------------- record of the loops
\* m1 with one more entry in iters: an iteration of split's or merge's loop
\* took the machine from m to m1 with the loop variable at cur; the loop goes
\* on at next, or has returned from inside the iteration (next = NULL)
Iteration(m, m1, loop, cur, next) ==
    [m1 EXCEPT !.iters = Append(@, [loop |-> loop, cur |-> cur, next |-> next,
                                    pre |-> [heap |-> m.heap, head |-> m.head],
                                    post |-> [heap |-> m1.heap, head |-> m1.head]])]

\* a child-list mutation of node n; kind is what was done to the list
Edit(kind, n) == [ev |-> "edit", kind |-> kind, node |-> n]
\* a call recalc(n)
Recalc(n) == [ev |-> "recalc", kind |-> "recalc", node |-> n]

\* the nodes the loop `while (pos != nullptr) { recalc(pos); pos = pos->parent; }`
\* visits, in order
RECURSIVE path_up(_, _)
path_up(h, pos) == IF pos = NULL THEN <<>> ELSE <<pos>> \o path_up(h, h[pos].parent)

\* the recalc calls of that loop
RecalcUp(h, pos) == [i \in 1..Len(path_up(h, pos)) |-> Recalc(path_up(h, pos)[i])]

\* ------------------------------------------------------------------ split
\* lines 59-65: the root is full, a new root is put above it
split_wrap(m, cur) ==
    LET new_root == Alloc(m.heap)
        nd == [NewNode EXCEPT !.mx = m.heap[m.head].mx, !.children = <<m.head>>]
    IN [m EXCEPT !.heap = [Store(@, new_root, nd) EXCEPT ![cur].parent = new_root],
                 !.head = new_root,
                 !.events = Append(@, Edit("wrap", new_root)),
                 !.trace = Append(@, "wrap")]

\* faulty variant of split_step: the new sibling is put before cur, not after it
split_step_before(m, cur) ==
    LET m1 == IF m.heap[cur].parent = NULL THEN split_wrap(m, cur) ELSE m
        par == m1.heap[cur].parent
        i == IndexOf(m1.heap[par].children, cur)
    IN IF i = 0 THEN [m1 EXCEPT !.ub = TRUE]
       ELSE LET to == Alloc(m1.heap)
                cs == m1.heap[cur].children
                nd == [NewNode EXCEPT !.children = SubSeq(cs, B + 1, 2 * B)]
                h2 == [Store(m1.heap, to, nd) EXCEPT
                          ![par].children = InsertAt(@, i, to),
                          ![cur].children = SubSeq(cs, 1, Len(cs) - B)]
            IN [m1 EXCEPT !.heap = recalc(recalc(recalc(h2, to), cur), par),
                          !.events = @ \o <<Edit("new sibling", par), Edit("move", to),
                                            Edit("move", cur),
                                            Recalc(to), Recalc(cur), Recalc(par)>>,
                          !.trace = Append(@, "split")]

\* lines 58-85: one iteration of split's loop on a node with 2B children
split_step(m, cur) ==
    LET m1 == IF m.heap[cur].parent = NULL THEN split_wrap(m, cur) ELSE m
        par == m1.heap[cur].parent
        i == IndexOf(m1.heap[par].children, cur)
    IN IF i = 0 THEN [m1 EXCEPT !.ub = TRUE]
       ELSE LET to == Alloc(m1.heap)
                cs == m1.heap[cur].children
                nd == [NewNode EXCEPT !.children = SubSeq(cs, B + 1, 2 * B)]
                h2 == [Store(m1.heap, to, nd) EXCEPT
                          ![par].children = InsertAt(@, i + 1, to),
                          ![cur].children = SubSeq(cs, 1, Len(cs) - B)]
            IN [m1 EXCEPT !.heap = recalc(recalc(recalc(h2, to), cur), par),
                          !.events = @ \o <<Edit("new sibling", par), Edit("move", to),
                                            Edit("move", cur),
                                            Recalc(to), Recalc(cur), Recalc(par)>>,
                          !.trace = Append(@, "split")]

\* faulty variant of split: one step, the parent that received the new sibling
\* is not looked at
split_once(m, cur) ==
    IF m.ub \/ Len(m.heap[cur].children) # 2 * B THEN m
    ELSE LET m1 == split_step(m, cur)
         IN Iteration(m, m1, "split", cur, m1.heap[cur].parent)

\* void split(Node* cur)
RECURSIVE split(_, _)
split(m, cur) ==
    IF m.ub \/ Len(m.heap[cur].children) # 2 * B THEN m
    ELSE IF Len(m.iters) >= MaxIter THEN [m EXCEPT !.cut = TRUE]
    ELSE LET m1 == split_step(m, cur)
             next == m1.heap[cur].parent
         IN split(Iteration(m, m1, "split", cur, next), next)

\* ------------------------------------------------------------------ merge
\* faulty variant of merge_root: the root is never replaced by its only child
merge_root_keep(m, cur) == m

\* faulty variant of merge_root: a root with one child is dropped even when
\* that child is a leaf
merge_root_any(m, cur) ==
    LET cs == m.heap[cur].children
    IN IF Len(cs) = 1
       THEN LET old == m.head
                new == m.heap[old].children[1]
                h1 == [m.heap EXCEPT ![old] = FreeNode, ![new].parent = NULL]
            IN [m EXCEPT !.heap = recalc(h1, new), !.head = new,
                         !.events = Append(@, Recalc(new)),
                         !.trace = Append(@, "collapse")]
       ELSE m

\* lines 95-100: cur is the root; a root with one internal child is dropped
merge_root(m, cur) ==
    LET cs == m.heap[cur].children
    IN IF Len(cs) = 1 /\ m.heap[cs[1]].children # <<>>
       THEN LET old == m.head
                new == m.heap[old].children[1]
                h1 == [m.heap EXCEPT ![old] = FreeNode, ![new].parent = NULL]
            IN [m EXCEPT !.heap = recalc(h1, new), !.head = new,
                         !.events = Append(@, Recalc(new)),
                         !.trace = Append(@, "collapse")]
       ELSE m

\* faulty variant of borrow_left: the left sibling is not refreshed after it
\* gave its last child away
borrow_left_stale(m, cur, neigh) ==
    LET ncs == m.heap[neigh].children
        h1 == [m.heap EXCEPT ![cur].children = <<Back(ncs)>> \o @,
                             ![neigh].children = SubSeq(ncs, 1, Len(ncs) - 1)]
    IN [m EXCEPT !.heap = recalc(h1, cur),
                 !.events = @ \o <<Edit("move", cur), Edit("move", neigh), Recalc(cur)>>,
                 !.trace = Append(@, "borrowL")]

\* lines 113-117: take the left sibling's last child
borrow_left(m, cur, neigh) ==
    LET ncs == m.heap[neigh].children
        h1 == [m.heap EXCEPT ![cur].children = <<Back(ncs)>> \o @,
                             ![neigh].children = SubSeq(ncs, 1, Len(ncs) - 1)]
    IN [m EXCEPT !.heap = recalc(recalc(h1, neigh), cur),
                 !.events = @ \o <<Edit("move", cur), Edit("move", neigh),
                                   Recalc(neigh), Recalc(cur)>>,
                 !.trace = Append(@, "borrowL")]

\* faulty variant of fuse_left: cur itself, not its children, is moved under the sibling
fuse_left_nested(m, cur, neigh, par, i) ==
    LET h1 == [m.heap EXCEPT ![neigh].children = Append(@, cur)]
        h2 == recalc(h1, neigh)
    IN [m EXCEPT !.heap = [h2 EXCEPT ![par].children = RemoveAt(@, i)],
                 !.trace = Append(@, "fuseL")]

\* lines 120-125: append cur's children to the left sibling, drop cur (slot i)
fuse_left(m, cur, neigh, par, i) ==
    LET h1 == [m.heap EXCEPT ![neigh].children = @ \o m.heap[cur].children]
        h2 == recalc(h1, neigh)
    IN [m EXCEPT !.heap = [h2 EXCEPT ![par].children = RemoveAt(@, i), ![cur] = FreeNode],
                 !.events = @ \o <<Edit("move", neigh), Recalc(neigh),
                                   Edit("remove slot", par)>>,
                 !.trace = Append(@, "fuseL")]

\* faulty variant of borrow_right: the right sibling's last child is taken
borrow_right_last(m, cur, neigh) ==
    LET ncs == m.heap[neigh].children
        h1 == [m.heap EXCEPT ![cur].children = @ \o <<Back(ncs)>>,
                             ![neigh].children = SubSeq(ncs, 1, Len(ncs) - 1)]
    IN [m EXCEPT !.heap = recalc(recalc(h1, neigh), cur),
                 !.events = @ \o <<Edit("move", cur), Edit("move", neigh),
                                   Recalc(neigh), Recalc(cur)>>,
                 !.trace = Append(@, "borrowR")]

\* lines 130-134: take the right sibling's first child
borrow_right(m, cur, neigh) ==
    LET ncs == m.heap[neigh].children
        h1 == [m.heap EXCEPT ![cur].children = @ \o <<ncs[1]>>,
                             ![neigh].children = Tail(ncs)]
    IN [m EXCEPT !.heap = recalc(recalc(h1, neigh), cur),
                 !.events = @ \o <<Edit("move", cur), Edit("move", neigh),
                                   Recalc(neigh), Recalc(cur)>>,
                 !.trace = Append(@, "borrowR")]

\* faulty variant of fuse_right: the sibling's children are put in front of cur's
fuse_right_prepend(m, cur, neigh, par, i) ==
    LET h1 == [m.heap EXCEPT ![cur].children = m.heap[neigh].children \o @]
        h2 == recalc(h1, cur)
    IN [m EXCEPT !.heap = [h2 EXCEPT ![par].children = RemoveAt(@, i + 1), ![neigh] = FreeNode],
                 !.events = @ \o <<Edit("move", cur), Recalc(cur),
                                   Edit("remove slot", par)>>,
                 !.trace = Append(@, "fuseR")]

\* lines 137-142: append the right sibling's children to cur, drop the sibling
fuse_right(m, cur, neigh, par, i) ==
    LET h1 == [m.heap EXCEPT ![cur].children = @ \o m.heap[neigh].children]
        h2 == recalc(h1, cur)
    IN [m EXCEPT !.heap = [h2 EXCEPT ![par].children = RemoveAt(@, i + 1), ![neigh] = FreeNode],
                 !.events = @ \o <<Edit("move", cur), Recalc(cur),
                                   Edit("remove slot", par)>>,
                 !.trace = Append(@, "fuseR")]

\* faulty variant of merge: after a fuse the loop does not go on with the parent
merge_once(m, cur) ==
    IF m.ub \/ Len(m.heap[cur].children) >= B THEN m
    ELSE IF m.heap[cur].parent = NULL
    THEN Iteration(m, merge_root(m, cur), "merge", cur, NULL)
    ELSE LET par == m.heap[cur].parent
             pcs == m.heap[par].children
             i == IndexOf(pcs, cur)
         IN IF i = 0 \/ Len(pcs) < 2
            THEN Iteration(m, [m EXCEPT !.ub = TRUE], "merge", cur, NULL)
            ELSE LET neigh == IF i # 1 THEN pcs[i - 1] ELSE pcs[i + 1]
                 IN IF Len(m.heap[neigh].children) > B
                    THEN Iteration(m, IF i # 1 THEN borrow_left(m, cur, neigh)
                                               ELSE borrow_right(m, cur, neigh),
                                   "merge", cur, NULL)
                    ELSE Iteration(m, IF i # 1 THEN fuse_left(m, cur, neigh, par, i)
                                               ELSE fuse_right(m, cur, neigh, par, i),
                                   "merge", cur, NULL)

\* void merge(Node* cur); i is the 1-based position of cur in its parent
RECURSIVE merge(_, _)
merge(m, cur) ==
    IF m.ub \/ Len(m.heap[cur].children) >= B THEN m
    ELSE IF Len(m.iters) >= MaxIter THEN [m EXCEPT !.cut = TRUE]
    ELSE IF m.heap[cur].parent = NULL
    THEN Iteration(m, merge_root(m, cur), "merge", cur, NULL)
    ELSE LET par == m.heap[cur].parent
             pcs == m.heap[par].children
             i == IndexOf(pcs, cur)
         IN IF i = 0 THEN Iteration(m, [m EXCEPT !.ub = TRUE], "merge", cur, NULL)
            ELSE IF i # 1
            THEN LET neigh == pcs[i - 1]
                 IN IF Len(m.heap[neigh].children) > B
                    THEN Iteration(m, borrow_left(m, cur, neigh), "merge", cur, NULL)
                    ELSE merge(Iteration(m, fuse_left(m, cur, neigh, par, i),
                                         "merge", cur, par), par)
            ELSE IF Len(pcs) < 2
            THEN Iteration(m, [m EXCEPT !.ub = TRUE], "merge", cur, NULL)
            ELSE LET neigh == pcs[i + 1]
                 IN IF Len(m.heap[neigh].children) > B
                    THEN Iteration(m, borrow_right(m, cur, neigh), "merge", cur, NULL)
                    ELSE merge(Iteration(m, fuse_right(m, cur, neigh, par, i),
                                         "merge", cur, par), par)

\* --------------------------------------------------------------- iterator
\* an iterator value, with whether computing it ran into undefined behaviour
It(p) == [ptr |-> p, ub |-> FALSE]
Undefined(p) == [ptr |-> p, ub |-> TRUE]

\* bool empty() const
empty(m) == m.sz = 0
\* size_t size() const
size(m) == m.sz

\* iterator end() const
end(m) == m.head
\* iterator begin() const
begin(m) == m.begin_iter

\* the descent loops `while (!cur->children.empty()) cur = cur->children.back().get();`
RECURSIVE rightmost(_, _)
rightmost(h, cur) ==
    IF h[cur].children = <<>> THEN cur ELSE rightmost(h, Back(h[cur].children))

\* lines 228-231: climb while prev is the last child; yields <<cur, prev>>
RECURSIVE climb_last(_, _, _)
climb_last(h, cur, prev) ==
    IF cur # NULL /\ h[cur].children # <<>> /\ Back(h[cur].children) = prev
    THEN climb_last(h, h[cur].parent, cur)
    ELSE <<cur, prev>>

\* iterator operator++()
inc(h, ptr) ==
    LET cp == climb_last(h, h[ptr].parent, ptr)
        cur == cp[1]
        prev == cp[2]
    IN IF cur = NULL THEN It(prev)
       ELSE LET i == IndexOf(h[cur].children, prev)
            IN IF i = 0 \/ i + 1 > Len(h[cur].children) THEN Undefined(ptr)
               ELSE It(leftmost(h, h[cur].children[i + 1]))

\* lines 266-269: climb while prev is the first child; yields <<cur, prev>>
RECURSIVE climb_first(_, _, _)
climb_first(h, cur, prev) ==
    IF cur # NULL /\ h[cur].children # <<>> /\ h[cur].children[1] = prev
    THEN climb_first(h, h[cur].parent, cur)
    ELSE <<cur, prev>>

\* faulty variant of dec: from end() the descent takes first children, as ++ does
dec_from_end_first(h, ptr) ==
    IF h[ptr].children # <<>> THEN It(leftmost(h, ptr))
    ELSE LET cp == climb_first(h, h[ptr].parent, ptr)
             cur == cp[1]
             prev == cp[2]
         IN IF cur = NULL THEN Undefined(ptr)
            ELSE LET i == IndexOf(h[cur].children, prev)
                 IN IF i < 2 THEN Undefined(ptr)
                    ELSE It(rightmost(h, h[cur].children[i - 1]))

\* iterator operator--()
dec(h, ptr) ==
    IF h[ptr].children # <<>> THEN It(rightmost(h, ptr))
    ELSE LET cp == climb_first(h, h[ptr].parent, ptr)
             cur == cp[1]
             prev == cp[2]
         IN IF cur = NULL THEN Undefined(ptr)
            ELSE LET i == IndexOf(h[cur].children, prev)
                 IN IF i < 2 THEN Undefined(ptr)
                    ELSE It(rightmost(h, h[cur].children[i - 1]))

\* ------------------------------------------------------ find, lower_bound
\* lines 305-308 and 392-395: 1-based index of the first child whose cached
\* maximum is not less than elem; Len(cs) + 1 when there is none
scan(h, cs, elem) ==
    LET S == {i \in 1..Len(cs) : ~(Deref(h, h[cs[i]].mx) < elem)}
    IN IF S = {} THEN Len(cs) + 1 ELSE Min(S)

\* every *mx read by the scan up to child k is a read of a live element
scan_ok(h, cs, k) == \A i \in 1..Len(cs) : i <= k => DerefOK(h, h[cs[i]].mx)

\* faulty variant of find_from: the reached leaf is returned without the equality test
RECURSIVE find_from_nocheck(_, _, _)
find_from_nocheck(m, cur, elem) ==
    LET h == m.heap
        cs == h[cur].children
    IN IF cs = <<>> THEN It(cur)
       ELSE LET i == scan(h, cs, elem)
            IN IF i = Len(cs) + 1 THEN It(end(m)) ELSE find_from_nocheck(m, cs[i], elem)

\* lines 304-317
RECURSIVE find_from(_, _, _)
find_from(m, cur, elem) ==
    LET h == m.heap
        cs == h[cur].children
    IN IF cs = <<>>
       THEN IF h[cur].data = NULL THEN Undefined(end(m))
            ELSE IF ~(h[cur].data < elem) /\ ~(elem < h[cur].data) THEN It(cur)
            ELSE It(end(m))
       ELSE LET i == scan(h, cs, elem)
            IN IF ~scan_ok(h, cs, i) THEN Undefined(end(m))
               ELSE IF i = Len(cs) + 1 THEN It(end(m))
               ELSE find_from(m, cs[i], elem)

\* iterator find(T elem) const
find(m, elem) == IF empty(m) THEN It(end(m)) ELSE find_from(m, m.head, elem)

\* faulty variant of lower_bound_from: descends into the last child, as insert does,
\* when no child's maximum reaches elem
RECURSIVE lower_bound_from_last(_, _, _)
lower_bound_from_last(m, cur, elem) ==
    LET h == m.heap
        cs == h[cur].children
    IN IF cs = <<>> THEN It(cur)
       ELSE lower_bound_from_last(m, cs[Min({scan(h, cs, elem), Len(cs)})], elem)

\* lines 391-401
RECURSIVE lower_bound_from(_, _, _)
lower_bound_from(m, cur, elem) ==
    LET h == m.heap
        cs == h[cur].children
    IN IF cs = <<>> THEN It(cur)
       ELSE LET i == scan(h, cs, elem)
            IN IF ~scan_ok(h, cs, i) THEN Undefined(end(m))
               ELSE IF i = Len(cs) + 1 THEN It(end(m))
               ELSE lower_bound_from(m, cs[i], elem)

\* iterator lower_bound(T elem) const
lower_bound(m, elem) ==
    IF empty(m) THEN It(end(m))
    ELSE IF m.heap[begin(m)].data = NULL THEN Undefined(end(m))
    ELSE IF elem < m.heap[begin(m)].data THEN It(begin(m))
    ELSE lower_bound_from(m, m.head, elem)

\* ----------------------------------------------------------------- insert
\* lines 334-340: descend to a leaf; at each node take the first child whose
\* cached maximum is not less than elem, or the last child.  NULL: the
\* descent read through a pointer to no element.
RECURSIVE insert_descend(_, _, _)
insert_descend(h, cur, elem) ==
    LET cs == h[cur].children
    IN IF cs = <<>> THEN cur
       ELSE LET i == Min({scan(h, cs, elem), Len(cs)})
            IN IF ~scan_ok(h, cs, i) THEN NULL ELSE insert_descend(h, cs[i], elem)

\* faulty variant of leaf_pos: the new leaf is always appended after its siblings
leaf_pos_append(h, cs, elem) == Len(cs) + 1

\* lines 342-345: 1-based slot of the new leaf among the leaves cs
leaf_pos(h, cs, elem) ==
    LET S == {i \in 1..Len(cs) : ~(h[cs[i]].data < elem)}
    IN IF S = {} THEN Len(cs) + 1 ELSE Min(S)

leaf_pos_ok(h, cs, k) == \A i \in 1..Len(cs) : i <= k => h[cs[i]].data # NULL

\* lines 321-326: insertion into the empty Set
insert_first(m, elem) ==
    LET leaf == Alloc(m.heap)
        h1 == [Store(m.heap, leaf, NewLeaf(leaf, elem, m.head)) EXCEPT
                  ![m.head].children = Append(@, leaf)]
    IN recalc_iter([m EXCEPT !.sz = @ + 1, !.heap = recalc(h1, m.head),
                             !.iters = <<>>,
                             !.events = <<Edit("add leaf", m.head), Recalc(m.head)>>,
                             !.trace = Append(@, "first")])

\* lines 331-354: insertion of an absent element into a non-empty Set
insert_new(m, elem) ==
    LET h == m.heap
        reached == insert_descend(h, m.head, elem)
        cur == IF reached = NULL THEN NULL ELSE h[reached].parent
    IN IF cur = NULL THEN [m EXCEPT !.sz = @ + 1, !.ub = TRUE]
       ELSE LET cs == h[cur].children
                i == leaf_pos(h, cs, elem)
            IN IF ~leaf_pos_ok(h, cs, i) THEN [m EXCEPT !.sz = @ + 1, !.ub = TRUE]
               ELSE LET leaf == Alloc(h)
                        h1 == [Store(h, leaf, NewLeaf(leaf, elem, cur)) EXCEPT
                                  ![cur].children = InsertAt(@, i, leaf)]
                        m1 == [m EXCEPT !.sz = @ + 1, !.heap = recalc_up(h1, cur),
                                        !.iters = <<>>,
                                        !.events = <<Edit("add leaf", cur)>>
                                                       \o RecalcUp(h1, cur),
                                        !.trace = Append(@, "new")]
                    IN recalc_iter(split(m1, cur))

\* faulty variant of insert: the membership test of lines 328-330 is left out
insert_unchecked(m, elem) ==
    IF empty(m) THEN insert_first(m, elem) ELSE insert_new(m, elem)

\* void insert(T elem)
insert(m, elem) ==
    IF empty(m) THEN insert_first(m, elem)
    ELSE LET f == find(m, elem)
         IN IF f.ub THEN [m EXCEPT !.ub = TRUE]
            ELSE IF f.ptr # end(m) THEN [m EXCEPT !.trace = Append(@, "dup")]
            ELSE insert_new(m, elem)

\* ------------------------------------------------------------------ erase
\* lines 362-379: removal of the leaf at iter
erase_at(m, iter) ==
    LET h == m.heap
        cur == h[iter].parent
        i == IF cur = NULL THEN 0 ELSE IndexOf(h[cur].children, iter)
    IN IF i = 0 THEN [m EXCEPT !.sz = @ - 1, !.ub = TRUE]
       ELSE LET h1 == [destroy(h, iter) EXCEPT ![cur].children = RemoveAt(@, i)]
                m1 == [m EXCEPT !.sz = @ - 1, !.heap = recalc_up(h1, cur),
                                !.iters = <<>>,
                                !.events = <<Edit("remove leaf", cur)>> \o RecalcUp(h1, cur),
                                !.trace = Append(@, "erased")]
            IN recalc_iter(IF m1.sz # 0 THEN merge(m1, cur) ELSE m1)

\* void erase(T elem)
erase(m, elem) ==
    LET f == find(m, elem)
    IN IF f.ub THEN [m EXCEPT !.ub = TRUE]
       ELSE IF f.ptr = end(m) THEN [m EXCEPT !.trace = Append(@, "absent")]
       ELSE erase_at(m, f.ptr)

\* ---------------------------------------------------- construction, copy
\* Set(): head(new Node), sz(0), recalc_iter()
construct(h) ==
    LET root == Alloc(h)
    IN recalc_iter([heap |-> Store(h, root, NewNode), head |-> root, sz |-> 0,
                    begin_iter |-> NULL, trace |-> <<>>, ub |-> FALSE,
                    iters |-> <<>>, events |-> <<>>, cut |-> FALSE])

\* lines 168-170: `for (const auto &i : set) insert(i);` with the iterator at it
RECURSIVE copy_loop(_, _, _)
copy_loop(m, set, it) ==
    IF m.ub \/ it = end(set) THEN m
    ELSE IF ~DerefOK(m.heap, it) THEN [m EXCEPT !.ub = TRUE]
    ELSE LET m1 == insert(m, m.heap[it].data)
             nx == inc(m1.heap, it)
         IN IF nx.ub THEN [m1 EXCEPT !.ub = TRUE] ELSE copy_loop(m1, set, nx.ptr)

\* Set(const Set &set), built in heap h
copy_construct(h, set) == copy_loop(construct(h), set, begin(set))

\* faulty variant of assign: the root pointer is copied instead of the elements
assign_shallow(m, set) ==
    IF m.head = set.head THEN m
    ELSE [m EXCEPT !.heap = destroy(m.heap, m.head), !.head = set.head,
                   !.sz = set.sz, !.begin_iter = set.begin_iter]

\* Set &operator=(const Set &set)
assign(m, set) ==
    LET tmp == copy_construct(m.heap, set)
    IN recalc_iter([m EXCEPT !.heap = destroy(tmp.heap, m.head), !.head = tmp.head,
                             !.sz = tmp.sz, !.trace = tmp.trace, !.ub = tmp.ub])

\* ------------------------------------------------------------ the system
\* the Set object s as the machine a method runs on
This(s) == [heap |-> heap, head |-> head[s], sz |-> sz[s], begin_iter |-> begin_iter[s],
            trace |-> <<>>, ub |-> FALSE, iters |-> <<>>, events |-> <<>>, cut |-> FALSE]

\* ------------------------------------------------------------- addresses
\* The addresses operator new returns are not fixed by the program, and no
\* method of the Set depends on them beyond equality.  Between public calls
\* the model therefore keeps the heap up to a renaming of addresses: the live
\* nodes are numbered in pre-order from each Set's root (then any live node no
\* Set owns), the free slots are dropped, and a pointer to a deleted node
\* becomes Dangling, an address at which no node is ever allocated, so that it
\* can never be taken for a pointer to a live node again.
Dangling == -1

RECURSIVE preorder(_, _)
preorder(h, n) ==
    LET cs == h[n].children
        RECURSIVE each(_)
        each(i) == IF i > Len(cs) THEN <<>> ELSE preorder(h, cs[i]) \o each(i + 1)
    IN <<n>> \o each(1)

RECURSIVE ascending(_)
ascending(S) == IF S = {} THEN <<>> ELSE <<Min(S)>> \o ascending(S \ {Min(S)})

\* q without the entries that are no live node or occurred before
RECURSIVE live_once(_, _, _)
live_once(h, q, seen) ==
    IF q = <<>> THEN <<>>
    ELSE IF ~Live(h, Head(q)) \/ Head(q) \in seen THEN live_once(h, Tail(q), seen)
    ELSE <<Head(q)>> \o live_once(h, Tail(q), seen \cup {Head(q)})

\* the live nodes in canonical order, given the roots hd (SetIds -> id)
canon_order(h, hd) ==
    LET reach == (IF Live(h, hd[1]) THEN preorder(h, hd[1]) ELSE <<>>)
                 \o (IF Live(h, hd[2]) THEN preorder(h, hd[2]) ELSE <<>>)
        owned == live_once(h, reach, {})
    IN owned \o ascending({n \in DOMAIN h : h[n].alloc} \ Range(owned))

\* the new address of pointer p
rename(order, p) ==
    IF p = NULL THEN NULL
    ELSE IF p \in Range(order) THEN IndexOf(order, p)
    ELSE Dangling

canon_heap(h, order) ==
    [n \in 1..Len(order) |->
        LET old == h[order[n]]
        IN [alloc |-> TRUE,
            parent |-> rename(order, old.parent),
            children |-> [i \in 1..Len(old.children) |-> rename(order, old.children[i])],
            data |-> old.data,
            mx |-> rename(order, old.mx)]]

\* a method on s returned with machine m
Return(s, m) ==
    LET hd == [head EXCEPT ![s] = m.head]
        bi == [begin_iter EXCEPT ![s] = m.begin_iter]
        order == canon_order(m.heap, hd)
    IN /\ ~m.cut
       /\ heap' = canon_heap(m.heap, order)
       /\ head' = [t \in SetIds |-> rename(order, hd[t])]
       /\ begin_iter' = [t \in SetIds |-> rename(order, bi[t])]
       /\ sz' = [sz EXCEPT ![s] = m.sz]
       /\ trace' = m.trace
       /\ ub' = m.ub
       /\ B' = B

Constructed(s) == head[s] # NULL

Init ==
    LET m == construct(<<>>)
    IN /\ B = DefaultB
       /\ heap = m.heap
       /\ head = [s \in SetIds |-> IF s = 1 THEN m.head ELSE NULL]
       /\ sz = [s \in SetIds |-> 0]
       /\ begin_iter = [s \in SetIds |-> IF s = 1 THEN m.begin_iter ELSE NULL]
       /\ abs = [s \in SetIds |-> {}]
       /\ trace = <<>>
       /\ ub = FALSE

Insert(s, x) ==
    /\ Constructed(s) /\ ~ub
    /\ abs' = [abs EXCEPT ![s] = @ \cup {x}]
    /\ Return(s, insert(This(s), x))

Erase(s, x) ==
    /\ Constructed(s) /\ ~ub
    /\ abs' = [abs EXCEPT ![s] = @ \ {x}]
    /\ Return(s, erase(This(s), x))

\* Set d(s): d is constructed as a copy of s
CopyConstruct(d, s) ==
    /\ ~Constructed(d) /\ Constructed(s) /\ ~ub
    /\ abs' = [abs EXCEPT ![d] = abs[s]]
    /\ Return(d, copy_construct(heap, This(s)))

\* d = s
CopyAssign(d, s) ==
    /\ Constructed(d) /\ Constructed(s) /\ ~ub
    /\ abs' = [abs EXCEPT ![d] = abs[s]]
    /\ Return(d, assign(This(d), This(s)))

\* one Set, any sequence of insert and erase
Next ==
    \E x \in Values : Insert(1, x) \/ Erase(1, x)

Spec == Init /\ [][Next]_vars

\* one Set<T, B> for each B of 1..MaxB, any sequence of insert and erase
InitB ==
    LET m == construct(<<>>)
    IN /\ B \in 1..MaxB
       /\ heap = m.heap
       /\ head = [s \in SetIds |-> IF s = 1 THEN m.head ELSE NULL]
       /\ sz = [s \in SetIds |-> 0]
       /\ begin_iter = [s \in SetIds |-> IF s = 1 THEN m.begin_iter ELSE NULL]
       /\ abs = [s \in SetIds |-> {}]
       /\ trace = <<>>
       /\ ub = FALSE

SpecB == InitB /\ [][Next]_vars

\* one Set that has grown to two levels (insert 1, 2, 3, 4: the fourth insert
\* splits the root of Set<T, 2>), then any sequence of insert and erase
InitGrown ==
    /\ B = DefaultB
    /\ \E m1 \in {insert(construct(<<>>), 1)} :
       \E m2 \in {insert([m1 EXCEPT !.trace = <<>>], 2)} :
       \E m3 \in {insert([m2 EXCEPT !.trace = <<>>], 3)} :
       \E m \in {insert([m3 EXCEPT !.trace = <<>>], 4)} :
       \E order \in {canon_order(m.heap, [s \in SetIds |-> IF s = 1 THEN m.head ELSE NULL])} :
          /\ heap = canon_heap(m.heap, order)
          /\ head = [s \in SetIds |-> IF s = 1 THEN rename(order, m.head) ELSE NULL]
          /\ sz = [s \in SetIds |-> IF s = 1 THEN m.sz ELSE 0]
          /\ begin_iter = [s \in SetIds |-> IF s = 1 THEN rename(order, m.begin_iter) ELSE NULL]
          /\ abs = [s \in SetIds |-> IF s = 1 THEN 1..4 ELSE {}]
          /\ trace = m.trace
          /\ ub = m.ub

SpecGrown == InitGrown /\ [][Next]_vars

\* two Sets: copies, and inserts and erases on either
NextCopy ==
    \/ \E s \in SetIds, x \in CopyValues : Insert(s, x) \/ Erase(s, x)
    \/ CopyConstruct(2, 1)
    \/ \E d \in SetIds, s \in SetIds : CopyAssign(d, s)

SpecCopy == Init /\ [][NextCopy]_vars

\* ================================================================ properties
\* ------------------------------------------------- reading the tree of Set s
\* the nodes of the subtree of n
Subtree(h, n) == Range(preorder(h, n))
Nodes(s) == IF Constructed(s) THEN Subtree(heap, head[s]) ELSE {}

IsLeaf(h, n) == h[n].data # NULL
IsInternal(h, n) == h[n].data = NULL

\* the elements stored under n
Elems(h, n) == {h[k].data : k \in {k \in Subtree(h, n) : IsLeaf(h, k)}}

\* the leaf of Set s that stores y (NULL when there is none or several)
LeafOf(s, y) ==
    LET L == {n \in Nodes(s) : heap[n].data = y}
    IN IF Cardinality(L) = 1 THEN CHOOSE n \in L : TRUE ELSE NULL

\* depth of every leaf under n, by child lists
RECURSIVE LeafDepths(_, _)
LeafDepths(h, n) ==
    IF h[n].children = <<>> THEN (IF IsLeaf(h, n) THEN {0} ELSE {})
    ELSE UNION {{d + 1 : d \in LeafDepths(h, c)} : c \in Range(h[n].children)}

\* the common depth of the leaves of a non-empty, balanced tree (0: no leaf)
HeightOf(h, root) ==
    LET D == LeafDepths(h, root) IN IF D = {} THEN 0 ELSE Max(D)

Height(s) == HeightOf(heap, head[s])

\* the childless nodes under n from left to right (the leaves; the root
\* itself in an empty Set)
Leaves(h, n) == SelectSeq(preorder(h, n), LAMBDA k : h[k].children = <<>>)

\* a Set with root hd, size n and begin pointer bi in heap h, as seen from its
\* own root: its nodes in pre-order with every pointer renamed to a position
\* in that order, its size and its begin pointer
SetStateOf(h, hd, n, bi) ==
    LET order == IF Live(h, hd) THEN live_once(h, preorder(h, hd), {}) ELSE <<>>
    IN [nodes |-> [i \in 1..Len(order) |->
                      [parent |-> rename(order, h[order[i]].parent),
                       children |-> [j \in 1..Len(h[order[i]].children) |->
                                        rename(order, h[order[i]].children[j])],
                       data |-> h[order[i]].data,
                       mx |-> rename(order, h[order[i]].mx)]],
        sz |-> n,
        begin_iter |-> rename(order, bi)]

SetState(s) == SetStateOf(heap, head[s], sz[s], begin_iter[s])

BalancedOf(h, root) == Cardinality(LeafDepths(h, root)) <= 1

Balanced(s) == BalancedOf(heap, head[s])

\* the elements met from it by ++ until end() (the root hd); ok is FALSE when
\* the walk runs into undefined behaviour or does not arrive at end()
RECURSIVE WalkFrom(_, _, _, _)
WalkFrom(h, hd, it, fuel) ==
    IF it = hd THEN [ok |-> TRUE, seq |-> <<>>]
    ELSE IF fuel = 0 \/ ~DerefOK(h, it) \/ inc(h, it).ub THEN [ok |-> FALSE, seq |-> <<>>]
    ELSE LET rest == WalkFrom(h, hd, inc(h, it).ptr, fuel - 1)
         IN [ok |-> rest.ok, seq |-> <<h[it].data>> \o rest.seq]

\* the walk from begin() to end() of the Set with root hd and begin pointer bi
WalkOf(h, hd, bi) == WalkFrom(h, hd, bi, Len(h))

Walk(s) == WalkOf(heap, head[s], begin_iter[s])

StrictlyIncreasing(q) == \A i \in 1..(Len(q) - 1) : q[i] < q[i + 1]

Count(q, tag) == Cardinality({i \in 1..Len(q) : q[i] = tag})

\* values asked for: every element, one below and one above all of them
Probes == 0..(MaxVal + 1)

\* ------------------------------------------------------------------ claims
\* C1: starting from an empty Set and after any sequence of insert and erase
\* calls, the Set agrees with the abstract set driven by the same calls:
\* size() is its cardinality, empty() holds exactly when it is empty, and the
\* walk from begin() by ++ to end() visits exactly its elements, each once,
\* in strictly increasing order.
C1_Refinement ==
    /\ ~ub
    /\ size(This(1)) = Cardinality(abs[1])
    /\ empty(This(1)) <=> (abs[1] = {})
    /\ LET w == Walk(1)
       IN /\ w.ok
          /\ StrictlyIncreasing(w.seq)
          /\ Range(w.seq) = abs[1]
          /\ Len(w.seq) = Cardinality(abs[1])

\* the Set after insert 5, 3, 8, 1, 4, 7, 9, 2, 6 and erase(5), or after any
\* other calls that end with an erase and leave these eight elements
C1_Witness ==
    /\ abs[1] = {1, 2, 3, 4, 6, 7, 8, 9}
    /\ Walk(1).seq = <<1, 2, 3, 4, 6, 7, 8, 9>>
    /\ size(This(1)) = 8
    /\ trace # <<>> /\ trace[1] = "erased"

\* C2: for every value x, find(x) is the iterator at a leaf storing x when x
\* is a member, and end() when it is not (never inserted, erased since, larger
\* than every member, or the Set is empty).
C2_Find ==
    \A x \in Probes :
        LET f == find(This(1), x)
        IN /\ ~f.ub
           /\ IF x \in abs[1]
              THEN /\ f.ptr # end(This(1))
                   /\ f.ptr \in Nodes(1)
                   /\ IsLeaf(heap, f.ptr)
                   /\ heap[f.ptr].data = x
              ELSE f.ptr = end(This(1))

\* an erase has just removed an element from a tree of two levels or more,
\* members are found, and a value above every member is not
C2_Witness ==
    /\ trace # <<>> /\ trace[1] = "erased"
    /\ size(This(1)) >= 4
    /\ Height(1) >= 2
    /\ \E x \in Values \ abs[1] : x < Max(abs[1]) /\ find(This(1), x).ptr = end(This(1))
    /\ find(This(1), Max(abs[1])).ptr = LeafOf(1, Max(abs[1]))
    /\ find(This(1), MaxVal + 1).ptr = end(This(1))

\* C3: for every value x, lower_bound(x) is the iterator at the smallest
\* stored element not less than x, end() when there is none (the empty Set
\* included), and begin() when x is less than the minimum.
C3_LowerBound ==
    \A x \in Probes :
        LET r == lower_bound(This(1), x)
            G == {y \in abs[1] : y >= x}
        IN /\ ~r.ub
           /\ IF G = {} THEN r.ptr = end(This(1))
              ELSE r.ptr # NULL /\ r.ptr = LeafOf(1, Min(G))
           /\ (abs[1] # {} /\ x < Min(abs[1])) => r.ptr = begin(This(1))

\* in a tree of two levels or more some absent x lies between two members and
\* lower_bound(x) is the leaf of the next member; a value above all gives end()
C3_Witness ==
    /\ Height(1) >= 2
    /\ \E x \in Values \ abs[1] :
          /\ Min(abs[1]) < x /\ x < Max(abs[1])
          /\ lower_bound(This(1), x).ptr = LeafOf(1, Min({y \in abs[1] : y > x}))
    /\ lower_bound(This(1), MaxVal + 1).ptr = end(This(1))
    /\ lower_bound(This(1), 0).ptr = begin(This(1))

\* C4: insert(x) of a member and erase(x) of a non-member change nothing of
\* the Set: every node's child list, parent pointer and cached maximum, the
\* root, the element count and the cached begin pointer stay as they were.
C4_NoOpFrame ==
    [][\/ UNCHANGED <<heap, head, sz, begin_iter>>
       \/ ~\E x \in Values : \/ (x \in abs[1] /\ Insert(1, x))
                              \/ (x \notin abs[1] /\ Erase(1, x))
      ]_vars

\* the last call was insert(x) for a member x of a tree of two levels or more
C4_Witness ==
    /\ trace = <<"dup">>
    /\ Height(1) >= 2
    /\ size(This(1)) = Cardinality(abs[1])

\* C5: for every iterator it at a stored element --(++it) == it (also when
\* ++it is end()); for every one but the minimum ++(--it) == it; ++ at the
\* maximum is end(); -- at end() of a non-empty Set is the maximum.
C5_Iterators ==
    /\ \A y \in abs[1] :
          LET it == LeafOf(1, y)
              nx == inc(heap, it)
              bk == dec(heap, nx.ptr)
          IN it # NULL /\ ~nx.ub /\ ~bk.ub /\ bk.ptr = it
    /\ \A y \in abs[1] :
          y # Min(abs[1]) =>
              LET it == LeafOf(1, y)
                  pv == dec(heap, it)
                  fw == inc(heap, pv.ptr)
              IN it # NULL /\ ~pv.ub /\ ~fw.ub /\ fw.ptr = it
    /\ abs[1] # {} =>
          /\ inc(heap, LeafOf(1, Max(abs[1]))) = It(end(This(1)))
          /\ dec(heap, end(This(1))) = It(LeafOf(1, Max(abs[1])))

\* a tree of three levels in which ++ from some leaf climbs to the root and
\* comes down in another subtree of the root, and -- comes back the same way
C5_Witness ==
    /\ Height(1) >= 3
    /\ \E y \in abs[1] :
          LET it == LeafOf(1, y)
              nx == inc(heap, it).ptr
          IN /\ it # NULL /\ nx # end(This(1))
             /\ heap[heap[nx].parent].parent # heap[heap[it].parent].parent
             /\ dec(heap, nx).ptr = it
    /\ dec(heap, end(This(1))).ptr = LeafOf(1, Max(abs[1]))

\* C6: after construction and after every insert, erase and copy assignment
\* the cached begin pointer is the leftmost leaf of the tree, so begin() is the
\* iterator at the minimum of a non-empty Set and begin() == end() exactly for
\* an empty Set; end() is the current root, the parentless node that owns
\* every element, also after split or merge has replaced the root.
C6_BeginEnd ==
    \A s \in SetIds :
        Constructed(s) =>
            /\ Live(heap, end(This(s)))
            /\ heap[end(This(s))].parent = NULL
            /\ Elems(heap, end(This(s))) = abs[s]
            /\ begin(This(s)) = Leaves(heap, head[s])[1]
            /\ abs[s] # {} => begin(This(s)) = LeafOf(s, Min(abs[s]))
            /\ (begin(This(s)) = end(This(s))) <=> (abs[s] = {})

\* both Sets exist, are non-empty and differ, the last call replaced a root
\* (a split put a new root on top or a merge dropped one), and begin() of
\* each Set is the leaf of its minimum
C6_Witness ==
    /\ Constructed(1) /\ Constructed(2)
    /\ abs[1] # {} /\ abs[2] # {} /\ abs[1] # abs[2]
    /\ \E i \in 1..Len(trace) : trace[i] \in {"wrap", "collapse"}
    /\ begin(This(1)) = LeafOf(1, Min(abs[1]))
    /\ begin(This(2)) = LeafOf(2, Min(abs[2]))
    /\ end(This(1)) # end(This(2))

\* Set o is after the step what it was before it: tree, size, begin pointer
\* and traversal
SameSet(o) ==
    /\ SetStateOf(heap', head'[o], sz'[o], begin_iter'[o]) = SetState(o)
    /\ WalkOf(heap', head'[o], begin_iter'[o]) = Walk(o)

\* C7: a Set made by copy construction or copy assignment has the elements
\* and size of its source and is built from nodes of its own, the source is
\* left as it was, and afterwards an insert or erase on either Set leaves the
\* other Set's tree, size, begin pointer and traversal unchanged.
C7_CopyIndependence ==
    [][/\ \A d \in SetIds : \A s \in SetIds \ {d} :
             \/ /\ WalkOf(heap', head'[d], begin_iter'[d]) = [ok |-> TRUE, seq |-> Walk(s).seq]
                /\ sz'[d] = sz[s]
                /\ SameSet(s)
             \/ ~(CopyConstruct(d, s) \/ CopyAssign(d, s))
       /\ \A o \in SetIds :
             \/ ~Constructed(o)
             \/ SameSet(o)
             \/ ~\E s \in SetIds \ {o}, x \in CopyValues : Insert(s, x) \/ Erase(s, x)
       /\ (Live(heap', head'[1]) /\ Live(heap', head'[2])) =>
             Subtree(heap', head'[1]) \cap Subtree(heap', head'[2]) = {}
      ]_vars

\* both Sets exist after a copy, an insert or erase on one of them has just
\* made them differ, one of them is a tree of two levels, and they share no
\* node
C7_Witness ==
    /\ Constructed(1) /\ Constructed(2)
    /\ Height(1) >= 2 \/ Height(2) >= 2
    /\ abs[1] # {} /\ abs[2] # {} /\ abs[1] # abs[2]
    /\ trace # <<>> /\ trace[1] \in {"new", "erased"}
    /\ Nodes(1) \cap Nodes(2) = {}

\* C8: every non-root internal node has between B and 2B children, the root
\* has at most 2B, and the root never has exactly one child that is itself
\* internal; so the one collapse step of merge is enough.
C8_Arity ==
    LET root == head[1]
        rcs == heap[root].children
    IN /\ \A n \in Nodes(1) \ {root} :
             IsInternal(heap, n) =>
                 /\ B <= Len(heap[n].children)
                 /\ Len(heap[n].children) <= 2 * B
       /\ Len(rcs) <= 2 * B
       /\ ~(Len(rcs) = 1 /\ IsInternal(heap, rcs[1]))

\* an erase has just collapsed the root of a tree of three levels; the node
\* promoted to root has two or more children
C8_Witness ==
    /\ Count(trace, "collapse") = 1
    /\ Height(1) = 2
    /\ Len(heap[head[1]].children) >= 2
    /\ \A c \in Range(heap[head[1]].children) : IsInternal(heap, c)

\* C9: after every call all leaves are at the same depth below the root, and
\* between two non-empty states that depth changes only by +1 for the new
\* root split puts on top and by -1 for the root merge drops.
C9_Balance ==
    [][/\ BalancedOf(heap', head'[1])
       /\ (sz[1] > 0 /\ sz'[1] > 0) =>
             /\ HeightOf(heap', head'[1])
                    = Height(1) + Count(trace', "wrap") - Count(trace', "collapse")
             /\ Count(trace', "wrap") + Count(trace', "collapse") <= 1
      ]_vars

\* a tree of three levels, reached by a call whose split put a new root on top
C9_Witness ==
    /\ Height(1) = 3
    /\ Count(trace, "wrap") = 1
    /\ Balanced(1)

\* C10: in a non-empty Set every node's cached maximum points at a live
\* element of that node's subtree, the greatest one there, and all elements
\* under a child are less than all elements under the next child.
C10_OrderCache ==
    sz[1] > 0 =>
        \A n \in Nodes(1) :
            LET cs == heap[n].children
            IN /\ Elems(heap, n) # {}
               /\ DerefOK(heap, heap[n].mx)
               /\ heap[n].mx \in Subtree(heap, n)
               /\ Deref(heap, heap[n].mx) = Max(Elems(heap, n))
               /\ \A i \in 1..(Len(cs) - 1) :
                     \A a \in Elems(heap, cs[i]), b \in Elems(heap, cs[i + 1]) : a < b

\* an erase ended with a fuse whose parent was not refreshed afterwards, in a
\* tree that keeps two levels or more, and the root's maximum is the greatest
\* member
C10_Witness ==
    /\ sz[1] > 0
    /\ trace # <<>> /\ Back(trace) \in {"fuseL", "fuseR"}
    /\ Height(1) >= 2
    /\ Deref(heap, heap[head[1]].mx) = Max(abs[1])

\* C11: after every call, every node's child list names nodes whose parent
\* pointer is that node, no node is in two child lists or twice in one, and
\* the root's parent pointer is null; this includes children that a split
\* moved to a new sibling, that a borrow or a fuse moved between siblings, and
\* the node a collapse made the root.
C11_BackReference ==
    /\ heap[head[1]].parent = NULL
    /\ \A n \in Nodes(1) :
          \A i \in DOMAIN heap[n].children :
              LET c == heap[n].children[i]
              IN /\ Live(heap, c)
                 /\ heap[c].parent = n
                 /\ \A k \in Nodes(1) :
                       \A j \in DOMAIN heap[k].children :
                           heap[k].children[j] = c => (k = n /\ j = i)

\* an erase fused two nodes and then dropped the root of a tree of three
\* levels: the fused node holds children taken over from its sibling and the
\* promoted node is the root
C11_Witness ==
    /\ Count(trace, "collapse") = 1
    /\ Count(trace, "fuseL") + Count(trace, "fuseR") >= 2
    /\ Height(1) = 2

\* ----------------------------------------------- the calls a state allows
\* the machines on which insert(x) or erase(x), called in the current state,
\* end (or are cut), for every x
Calls == {insert(This(1), x) : x \in Values} \cup {erase(This(1), x) : x \in Values}

\* the loop of the call that ended on machine m ran to its end within the
\* number of iterations the height of the tree at the call allows
LoopBounded(m) == ~m.cut /\ Len(m.iters) <= Height(1) + 1

\* C12: for every B of 1..MaxB and in every reachable state, the split loop
\* of every insert and the merge loop of every erase come to an end, after
\* at most (height of the tree) + 1 iterations.
C12_LoopsTerminate == \A m \in Calls : LoopBounded(m)

\* C12, for the instantiations with B >= 2 only
C12_LoopsTerminateFromTwo == B >= 2 => \A m \in Calls : LoopBounded(m) /\ ~m.ub

\* a Set<T, B> with B >= 2 of three levels in which some insert splits three
\* nodes in a row, or some erase takes the merge loop up to the root
C12_WitnessFromTwo ==
    /\ B >= 2 /\ Height(1) = 3
    /\ \E m \in Calls : Len(m.iters) = 3

\* ------------------------------------------------- edits and recalc calls
\* event k of the call that ended on m is followed by a call recalc(n)
RecalcAfter(m, k, n) ==
    \E j \in DOMAIN m.events : j > k /\ m.events[j] = Recalc(n)

\* C13 as stated: after every child-list mutation of a call, recalc is
\* invoked on the edited node and on every ancestor of it up to the root
\* before the call returns.
C13_RecalcEveryAncestor ==
    \A m \in Calls : \A k \in DOMAIN m.events :
        (m.events[k].ev = "edit" /\ Live(m.heap, m.events[k].node)) =>
            \A a \in Range(path_up(m.heap, m.events[k].node)) : RecalcAfter(m, k, a)

\* C13, amended: the edit that adds or removes a leaf is followed at once by
\* recalc on the edited node and each of its ancestors in turn up to the
\* root; a later edit of split or merge (a new root taking the old one, a new
\* sibling put into a parent, children moved into or out of a node) is
\* followed by recalc on the edited node itself; nothing is required after
\* the removal of a fused node's slot from its parent.
C13_RecalcAfterEdit ==
    \A m \in Calls : \A k \in DOMAIN m.events :
        LET e == m.events[k]
            up == RecalcUp(heap, e.node)
        IN /\ e.kind \in {"add leaf", "remove leaf"} =>
                 /\ k = 1
                 /\ Len(m.events) >= 1 + Len(up)
                 /\ SubSeq(m.events, 2, 1 + Len(up)) = up
                 /\ Back(up).node = head[1]
           /\ e.kind \in {"wrap", "new sibling", "move"} =>
                 (Live(m.heap, e.node) /\ RecalcAfter(m, k, e.node))

\* a tree of two levels in which some erase fuses a node into its sibling and
\* leaves the loop there: the parent that lost the slot stays in the tree and
\* is not refreshed after that edit
C13_Witness ==
    /\ Height(1) = 2
    /\ \E m \in Calls : \E k \in DOMAIN m.events :
          /\ m.events[k].kind = "remove slot"
          /\ Live(m.heap, m.events[k].node)
          /\ ~RecalcAfter(m, k, m.events[k].node)
          /\ m.events[1].kind = "remove leaf"

\* ------------------------------------------- reading a loop iteration r
\* the child list of n in st, the heap and root before or after an iteration
Kids(st, n) == st.heap[n].children
LiveNodes(st) == {n \in DOMAIN st.heap : st.heap[n].alloc}

\* r is an iteration of merge's loop on a non-root node with fewer than B
\* children
MergeAt(r) ==
    /\ r.loop = "merge"
    /\ r.pre.heap[r.cur].parent # NULL
    /\ Len(Kids(r.pre, r.cur)) < B

\* the parent of the node of r, the parent's child list and the node's
\* position in it, all before the iteration
ParentOf(r) == r.pre.heap[r.cur].parent
Siblings(r) == Kids(r.pre, ParentOf(r))
Pos(r) == IndexOf(Siblings(r), r.cur)

\* the sibling the claims name: the left one unless the node is the first child
Consulted(r) ==
    IF Pos(r) # 1 THEN Siblings(r)[Pos(r) - 1] ELSE Siblings(r)[Pos(r) + 1]

\* C14: when merge meets a non-root node with fewer than B children whose
\* left sibling (right sibling, for a first child) has more than B children,
\* exactly one child moves: the left sibling's last child to the front of the
\* node, or the right sibling's first child to its back; no other child list
\* changes, so the parent keeps its child count; the node ends with exactly B
\* children; and merge returns from this iteration without going on to any
\* ancestor.
C14_Borrow ==
    \A m \in Calls : \A k \in DOMAIN m.iters :
        LET r == m.iters[k]
        IN (MergeAt(r) /\ Len(Siblings(r)) >= 2 /\ Len(Kids(r.pre, Consulted(r))) > B) =>
              LET sib == Consulted(r)
                  left == Pos(r) # 1
                  scs == Kids(r.pre, sib)
                  moved == IF left THEN Back(scs) ELSE Head(scs)
              IN /\ Kids(r.post, r.cur) = IF left THEN <<moved>> \o Kids(r.pre, r.cur)
                                                   ELSE Append(Kids(r.pre, r.cur), moved)
                 /\ Kids(r.post, sib) = IF left THEN SubSeq(scs, 1, Len(scs) - 1)
                                                 ELSE Tail(scs)
                 /\ r.post.heap[moved].parent = r.cur
                 /\ LiveNodes(r.post) = LiveNodes(r.pre)
                 /\ \A n \in LiveNodes(r.pre) \ {r.cur, sib} : Kids(r.post, n) = Kids(r.pre, n)
                 /\ Len(Kids(r.post, ParentOf(r))) = Len(Siblings(r))
                 /\ Len(Kids(r.post, r.cur)) = B
                 /\ r.next = NULL
                 /\ k = Len(m.iters)

\* a tree of two levels in which one erase borrows from a left sibling and
\* another erase borrows from a right sibling
C14_Witness ==
    /\ Height(1) = 2
    /\ \E m \in Calls : Back(m.trace) = "borrowL" /\ Len(m.iters) = 1
    /\ \E m \in Calls : Back(m.trace) = "borrowR" /\ Len(m.iters) = 1

\* C15: when merge meets a non-root node with fewer than B children whose
\* consulted sibling has exactly B children, one of the two nodes survives and
\* holds the children of the left one followed by those of the right one,
\* 2B - 1 in all; the other node is deleted and its slot is taken out of the
\* parent's child list, which is otherwise unchanged and one shorter; the
\* leaves of the tree are the same, in the same order; and the loop goes on
\* with the parent as its current node.
C15_Fuse ==
    \A m \in Calls : \A k \in DOMAIN m.iters :
        LET r == m.iters[k]
        IN (MergeAt(r) /\ Len(Siblings(r)) >= 2 /\ Len(Kids(r.pre, Consulted(r))) = B) =>
              LET sib == Consulted(r)
                  par == ParentOf(r)
                  lft == IF Pos(r) # 1 THEN sib ELSE r.cur
                  rgt == IF Pos(r) # 1 THEN r.cur ELSE sib
                  both == Kids(r.pre, lft) \o Kids(r.pre, rgt)
              IN /\ \E keep \in {r.cur, sib} :
                       LET gone == CHOOSE n \in {r.cur, sib} : n # keep
                       IN /\ Live(r.post.heap, keep) /\ ~Live(r.post.heap, gone)
                          /\ Kids(r.post, keep) = both
                          /\ \A c \in Range(both) : r.post.heap[c].parent = keep
                          /\ Kids(r.post, par)
                                = RemoveAt(Siblings(r), IndexOf(Siblings(r), gone))
                          /\ LiveNodes(r.post) = LiveNodes(r.pre) \ {gone}
                          /\ \A n \in LiveNodes(r.pre) \ {r.cur, sib, par} :
                                Kids(r.post, n) = Kids(r.pre, n)
                 /\ Len(both) = 2 * B - 1
                 /\ Len(Kids(r.post, par)) = Len(Siblings(r)) - 1
                 /\ Leaves(r.post.heap, r.post.head) = Leaves(r.pre.heap, r.pre.head)
                 /\ r.next = par
                 /\ IF k < Len(m.iters) THEN m.iters[k + 1].cur = par
                    ELSE Len(Kids(r.post, par)) >= B

\* a tree of three levels in which some erase fuses a node of the lowest
\* level into its left sibling, then their parent with its right sibling, and
\* goes on to the root
C15_Witness ==
    /\ Height(1) = 3
    /\ \E m \in Calls :
          /\ Len(m.iters) = 3
          /\ SubSeq(m.trace, 2, 3) = <<"fuseL", "fuseR">>
          /\ m.iters[2].cur = m.iters[1].next
          /\ m.iters[3].cur = head[1]

\* C16: an iteration of split's loop on a node with exactly 2B children
\* leaves the node with its first B children and creates one node holding its
\* last B children in the same order, placed right after the node in the
\* parent's child list, which is otherwise unchanged and one longer; when the
\* node was the root, the parent is a new root that ends the iteration with
\* the old root and the new sibling as its two children.
C16_SplitStep ==
    \A m \in Calls : \A k \in DOMAIN m.iters :
        LET r == m.iters[k]
            cs == Kids(r.pre, r.cur)
            was_root == r.pre.heap[r.cur].parent = NULL
            par == r.post.heap[r.cur].parent
            before == IF was_root THEN <<r.cur>> ELSE Kids(r.pre, par)
            i == IndexOf(before, r.cur)
        IN r.loop = "split" =>
              /\ Len(cs) = 2 * B
              /\ Kids(r.post, r.cur) = SubSeq(cs, 1, B)
              /\ Live(r.post.heap, par)
              /\ i # 0 /\ Len(Kids(r.post, par)) = Len(before) + 1
              /\ LET to == Kids(r.post, par)[i + 1]
                 IN /\ ~Live(r.pre.heap, to)
                    /\ Kids(r.post, to) = SubSeq(cs, B + 1, 2 * B)
                    /\ Kids(r.post, par) = InsertAt(before, i + 1, to)
                    /\ \A c \in Range(Kids(r.post, to)) : r.post.heap[c].parent = to
                    /\ r.post.heap[to].parent = par
                    /\ LiveNodes(r.post)
                          = LiveNodes(r.pre) \cup {to} \cup (IF was_root THEN {par} ELSE {})
                    /\ \A n \in LiveNodes(r.pre) \ {r.cur, par} :
                          Kids(r.post, n) = Kids(r.pre, n)
                    /\ was_root =>
                          /\ r.pre.head = r.cur /\ ~Live(r.pre.heap, par)
                          /\ r.post.head = par /\ r.post.heap[par].parent = NULL
                          /\ Kids(r.post, par) = <<r.cur, to>>
                    /\ ~was_root => r.post.head = r.pre.head
              /\ r.next = par

\* a tree of two levels in which some insert splits a node of the lower level
\* and then the root, which gets a new root above it
C16_Witness ==
    /\ Height(1) = 2
    /\ \E m \in Calls :
          /\ m.trace = <<"new", "split", "wrap", "split">>
          /\ Len(m.iters) = 2
          /\ m.iters[2].cur = head[1]
          /\ Len(Kids(m.iters[2].pre, head[1])) = 2 * B

\* C17: whenever size() is 0 the root has no children and a null parent, and
\* the next insert makes its leaf the first and only child of that root;
\* whenever size() is 1 the tree is the root with one child, a leaf.  The
\* Set starts grown to two levels, so that every empty Set met has had all
\* the elements of such a tree erased.
C17_SmallSets ==
    LET root == head[1]
    IN /\ heap[root].parent = NULL
       /\ size(This(1)) = 0 =>
             /\ heap[root].children = <<>>
             /\ Nodes(1) = {root}
             /\ \A x \in Values :
                   LET m == insert(This(1), x)
                       cs == m.heap[m.head].children
                   IN /\ m.head = root /\ Len(cs) = 1
                      /\ m.heap[cs[1]].data = x /\ m.heap[cs[1]].children = <<>>
                      /\ m.heap[cs[1]].parent = root
       /\ size(This(1)) = 1 =>
             /\ Len(heap[root].children) = 1
             /\ IsLeaf(heap, heap[root].children[1])
             /\ heap[heap[root].children[1]].children = <<>>
             /\ Nodes(1) = {root, heap[root].children[1]}

\* the Set that had two levels is empty again: the last call erased its last
\* element
C17_Witness ==
    /\ size(This(1)) = 0
    /\ trace = <<"erased">>
    /\ abs[1] = {}

\* C18 (B = 2): no erase runs into undefined behaviour, and whenever merge's
\* loop is at a non-root node with fewer than B children, the node is in its
\* parent's child list and that list has two entries or more, so the index of
\* the sibling merge reads (i - 1 for a later child, i + 1 for the first
\* child) is inside the list.
C18_SiblingInBounds ==
    \A m \in Calls :
        /\ ~m.ub
        /\ \A k \in DOMAIN m.iters :
              LET r == m.iters[k]
              IN MergeAt(r) =>
                    /\ Pos(r) \in DOMAIN Siblings(r)
                    /\ Len(Siblings(r)) >= 2
                    /\ (IF Pos(r) # 1 THEN Pos(r) - 1 ELSE Pos(r) + 1) \in DOMAIN Siblings(r)

\* a tree of three levels in which some erase brings merge, at its second
\* iteration, to a first child whose parent has just two children
C18_Witness ==
    /\ B = 2 /\ Height(1) = 3
    /\ \E m \in Calls :
          /\ Len(m.iters) >= 2
          /\ MergeAt(m.iters[2])
          /\ Pos(m.iters[2]) = 1
          /\ Len(Siblings(m.iters[2])) = 2

\* the greatest number of children any node has in st
MaxKids(st) == Max({0} \cup {Len(Kids(st, n)) : n \in LiveNodes(st)})

\* C19 (B = 2): between calls no node has more than 2B - 1 children; inside
\* an insert or erase, before and after every iteration of split's and
\* merge's loop, no node has more than 2B children, and when the call ends no
\* node has 2B.  (An iteration only shortens the list of the node it splits
\* or empties and only lengthens the lists it moves children or a sibling
\* into, so no list is longer in the middle of an iteration than at both of
\* its ends.)
C19_NoOverflow ==
    /\ \A n \in Nodes(1) : Len(heap[n].children) <= 2 * B - 1
    /\ \A m \in Calls :
          /\ ~m.cut
          /\ \A k \in DOMAIN m.iters :
                MaxKids(m.iters[k].pre) <= 2 * B /\ MaxKids(m.iters[k].post) <= 2 * B
          /\ MaxKids(m) <= 2 * B - 1

\* a tree of two levels in which some insert fills a node to 2B children,
\* splits it, thereby fills the root to 2B children, and splits the root
C19_Witness ==
    /\ B = 2 /\ Height(1) = 2
    /\ \E m \in Calls :
          /\ Len(m.iters) = 2
          /\ MaxKids(m.iters[1].pre) = 2 * B
          /\ Len(Kids(m.iters[1].post, head[1])) = 2 * B
          /\ MaxKids(m) = B + 1

====
